---- MODULE Spec2Model ----
(***************************************************************************)
(* Sleeping-barber web crawler: AppController (app_controller.py), the     *)
(* Crawler and URLProducer threads, URLQueue and normalize_url (models.py) *)
(* and the console commands that drive them (interface.py).                *)
(*                                                                         *)
(* Three kinds of process share the controller's state: the console       *)
(* thread, which runs start() and stop() one after the other; the Crawler  *)
(* threads; the URLProducer threads.  Every read or write of shared state  *)
(* that the code does outside the lock is a step of its own, so that the   *)
(* other processes interleave with it.  config.json is an input: what a   *)
(* reload finds in it is chosen at the reload.                             *)
(***************************************************************************)
EXTENDS Integers, Sequences, FiniteSets, TLC

\* ------------------------------------------------------------------ bounds
\* successful start() calls (each one creates a Crawler and a URLProducer)
MaxStarts == 2
\* reloads that find config.json changed
MaxEdits == 1

\* ------------------------------------------------------------------- text
\* A string is a sequence of one-character strings.
LowerChar(c) ==
    CASE c = "A" -> "a"
      [] c = "B" -> "b"
      [] c = "C" -> "c"
      [] c = "E" -> "e"
      [] c = "H" -> "h"
      [] c = "P" -> "p"
      [] c = "S" -> "s"
      [] c = "T" -> "t"
      [] c = "U" -> "u"
      [] c = "X" -> "x"
      [] OTHER -> c

\* str.lower()
Lower(s) == [i \in 1..Len(s) |-> LowerChar(s[i])]

\* str.rstrip('/')
RECURSIVE RStripSlash(_)
RStripSlash(s) ==
    IF s # <<>> /\ s[Len(s)] = "/" THEN RStripSlash(SubSeq(s, 1, Len(s) - 1)) ELSE s

\* str.find(c, i): the first place at or after i where c stands, 0 for none
RECURSIVE Find(_, _, _)
Find(s, c, i) ==
    IF i > Len(s) THEN 0
    ELSE IF s[i] = c THEN i
    ELSE Find(s, c, i + 1)

\* str.rfind(c): the last place where c stands, 0 for none
RECURSIVE RFind(_, _)
RFind(s, c) ==
    IF s = <<>> THEN 0
    ELSE IF s[Len(s)] = c THEN Len(s)
    ELSE RFind(SubSeq(s, 1, Len(s) - 1), c)

Digits == <<"0", "1", "2", "3", "4", "5", "6", "7", "8", "9">>

\* str.isdigit() for an ASCII string
IsDigits(s) == s # <<>> /\ \A i \in 1..Len(s) : Find(Digits, s[i], 1) # 0

\* int(s) for a string of digits
RECURSIVE StrToInt(_)
StrToInt(s) ==
    IF s = <<>> THEN 0
    ELSE 10 * StrToInt(SubSeq(s, 1, Len(s) - 1)) + (Find(Digits, s[Len(s)], 1) - 1)

\* str(n) for n >= 0
RECURSIVE IntToStr(_)
IntToStr(n) ==
    IF n < 10 THEN <<Digits[n + 1]>>
    ELSE IntToStr(n \div 10) \o <<Digits[(n % 10) + 1]>>

\* ------------------------------------------------------------------- URLs
\* A URL string is given by the parts urlsplit cuts it into: scheme,
\* netloc, path (with its parameters) and query.  The URLs here have a
\* scheme and a host, and a path that is empty or begins with "/": for
\* these the string and its parts determine each other, so equal parts
\* mean equal strings.
Http == <<"h", "t", "t", "p">>
Https == <<"h", "t", "t", "p", "s">>

Url(scheme, netloc, path, query) ==
    [scheme |-> scheme, netloc |-> netloc, path |-> path, query |-> query]

\* parsed.port when the URL gives no port, and the ValueError it raises
\* for a port that is no number between 0 and 65535
NoPort == -1
BadPort == -2
MaxPort == 65535

\* urllib.parse _hostinfo: the netloc without the user part, cut at the
\* bracket of an IPv6 address if there is one, else at the first ":"
hostinfo(netloc) ==
    LET at == RFind(netloc, "@")
        info == SubSeq(netloc, at + 1, Len(netloc))
        open == Find(info, "[", 1)
    IN  IF open # 0
        THEN LET bracketed == SubSeq(info, open + 1, Len(info))
                 close == Find(bracketed, "]", 1)
                 cut == IF close = 0 THEN Len(bracketed) + 1 ELSE close
                 after == SubSeq(bracketed, cut + 1, Len(bracketed))
                 colon == Find(after, ":", 1)
             IN  [hostname |-> SubSeq(bracketed, 1, cut - 1),
                  port |-> IF colon = 0 THEN <<>>
                           ELSE SubSeq(after, colon + 1, Len(after))]
        ELSE LET colon == Find(info, ":", 1)
             IN  IF colon = 0 THEN [hostname |-> info, port |-> <<>>]
                 ELSE [hostname |-> SubSeq(info, 1, colon - 1),
                       port |-> SubSeq(info, colon + 1, Len(info))]

\* parsed.hostname (lower-cased by urllib), '' for None as on line 29
hostname(netloc) == Lower(hostinfo(netloc).hostname)

\* parsed.port
port(netloc) ==
    LET p == hostinfo(netloc).port
    IN  IF p = <<>> THEN NoPort
        ELSE IF ~IsDigits(p) THEN BadPort
        ELSE IF StrToInt(p) > MaxPort THEN BadPort
        ELSE StrToInt(p)

\* parsed.path: urlparse cuts the parameters (from the first ";" of the
\* last path segment) off the path
splitparams(path) ==
    LET i == IF RFind(path, "/") # 0
             THEN Find(path, ";", RFind(path, "/"))
             ELSE Find(path, ";", 1)
    IN  IF i = 0 THEN path ELSE SubSeq(path, 1, i - 1)

\* what normalize_url gives when parsed.port raises
ValueError == [raised |-> "ValueError"]

\* models.py normalize_url
normalize_url(url) ==
    LET scheme == Lower(url.scheme)
        host == hostname(url.netloc)
        p == port(url.netloc)
        netloc == IF (scheme = Http /\ p = 80) \/ (scheme = Https /\ p = 443)
                  THEN host
                  ELSE IF p # NoPort /\ p # 0 THEN host \o <<":">> \o IntToStr(p)
                  ELSE host
        path == Lower(RStripSlash(splitparams(url.path)))
    IN  IF p = BadPort THEN ValueError ELSE Url(scheme, netloc, path, <<>>)

\* "HTTP://E:80/A/?s" and "http://e/a": two spellings of one page
RawA1 == Url(<<"H", "T", "T", "P">>, <<"E", ":", "8", "0">>, <<"/", "A", "/">>, <<"s">>)
RawA2 == Url(Http, <<"e">>, <<"/", "a">>, <<>>)
UrlA == Url(Http, <<"e">>, <<"/", "a">>, <<>>)
UrlB == Url(Http, <<"e">>, <<"/", "a", "/", "b">>, <<>>)
UrlC == Url(Http, <<"e">>, <<"/", "c">>, <<>>)

\* the keys the run can meet
NormUrls == {UrlA, UrlB, UrlC}

\* the URLs the run hands to normalize_url: those of the configurations and
\* the links of the pages
RunUrls == {RawA1, RawA2} \cup NormUrls

\* normalize_url on the URLs of the run, worked out once
Normalized == [url \in RunUrls |-> normalize_url(url)]

\* the sentinel stop() publishes (Python's None)
NoneUrl == [none |-> TRUE]

\* ----------------------------------------------------------- configuration
\* The keys of config.json that the controller and the two loops read.
Config(initial_urls, max_customers, max_queue_size, enable, probability) ==
    [initial_urls |-> initial_urls, max_customers |-> max_customers,
     max_queue_size |-> max_queue_size,
     enable_wakeup_from_stored_urls |-> enable,
     new_customer_probability |-> probability]

\* config.json as AppController.reset loads it
DefaultConfig == Config(<<RawA1, UrlC>>, 1, 2, TRUE, 50)

\* config.json as a reload may find it, rewritten by the edit command (or by
\* any editor): the default, the default with one key changed (a list of
\* strings, an int >= 1, a bool, a probability in [0, 1], here in percent),
\* or with the list and max_customers both changed
ConfigChoices ==
    {DefaultConfig,
     [DefaultConfig EXCEPT !.initial_urls = <<RawA2, UrlB>>],
     [DefaultConfig EXCEPT !.initial_urls = <<RawA2, UrlB>>, !.max_customers = 2],
     [DefaultConfig EXCEPT !.max_customers = 2],
     [DefaultConfig EXCEPT !.max_queue_size = 1],
     [DefaultConfig EXCEPT !.enable_wakeup_from_stored_urls = FALSE],
     [DefaultConfig EXCEPT !.new_customer_probability = 100]}

\* random.random() is in [0, 1): the draws, in percent
Draws == {0, 50, 99}

\* what Parser.parse may return for a fetched page: normalized http(s) links
PageLinks == {<<>>, <<UrlA, UrlB, UrlB>>}

\* ------------------------------------------------------------------ state
VARIABLES
    running,           \* AppController.running
    url_queue,         \* URLQueue.q: the items, oldest first
    unfinished_tasks,  \* queue.Queue.unfinished_tasks of URLQueue.q
    visited,           \* AppController.visited
    stored_links,      \* AppController.stored_links (the Pool)
    customers_info,    \* AppController.customers_info (the results)
    lock,              \* AppController.lock: Free or the thread that holds it
    crawler,           \* AppController.crawler: 0 is None, else the thread
    producer_thread,   \* AppController.producer_thread: 0 is None
    config_data,       \* Config.data, the singleton's loaded copy
    ui,                \* the console thread: where it is in start() / stop()
    crawlers,          \* the Crawler threads created so far
    producers,         \* the URLProducer threads created so far
    starts,            \* start() calls that went past the running check
    edits,             \* reloads that found config.json changed so far
    enqueued,          \* history: put_url calls per URL
    fetched,           \* history: fetch calls per URL
    lab                \* a function called on its own: its inputs and results

vars == <<running, url_queue, unfinished_tasks, visited, stored_links,
          customers_info, lock, crawler, producer_thread,
          config_data, ui, crawlers, producers, starts, edits, enqueued,
          fetched, lab>>

\* the controller's own fields
appVars == <<running, url_queue, unfinished_tasks, visited, stored_links,
             customers_info, lock, crawler, producer_thread>>

Threads == 1..MaxStarts
Free == <<"free", 0>>
CrawlerId(k) == <<"crawler", k>>
ProducerId(k) == <<"producer", k>>

\* what PageFetcher.fetch returns, as the worker sees it: None, the empty
\* text of a page without a body, or the text of a page
HtmlNone == "None"
Htmls == {HtmlNone, "", "<a>"}

\* the test "if html" of line 257
Truthy(html) == html # HtmlNone /\ html # ""

\* a Crawler: its place in run(), its own flag, the locals url, html and
\* found_links, the place j in the loop of store_links, max_customers as
\* read by __init__; n0 (the number of results when url was taken) and
\* pool0 (the Pool when store_links was called) are history
UnbornCrawler ==
    [pc |-> "unborn", running |-> FALSE, url |-> NoneUrl, html |-> HtmlNone,
     links |-> <<>>, j |-> 0, max_customers |-> 0, n0 |-> 0, pool0 |-> <<>>]
UnbornProducer ==
    [pc |-> "unborn", running |-> FALSE, link |-> NoneUrl, probability |-> 0]

\* a thread whose run() has returned: nothing reads its fields any more
DeadCrawler == [UnbornCrawler EXCEPT !.pc = "dead"]
DeadProducer == [UnbornProducer EXCEPT !.pc = "dead"]

\* a thread is alive from Thread.start() until run() returns
CrawlerAlive(k) == crawlers[k].pc \notin {"unborn", "dead"}
ProducerAlive(k) == producers[k].pc \notin {"unborn", "dead"}

\* a put_url that puts the item at the head of the queue
PutFront(q, item) == <<item>> \o q

\* URLQueue.put_url
put_url(q, item) == Append(q, item)

\* URLQueue.get_url: the item it returns (the queue keeps the rest)
get_url(q) == Head(q)

\* URLQueue.size and URLQueue.empty
size(q) == Len(q)
empty(q) == size(q) = 0

\* the console thread between two commands.  While a command runs: pc is
\* its place in start() / stop(), cmd the command, urls and i the locals
\* of start(); noop (the call returned at its first test), seeded (what
\* this start() has put on the queue) and visited0 (the Visited Set when
\* it was called) are history
IdleConsole ==
    [pc |-> "idle", urls |-> <<>>, i |-> 0, cmd |-> "none", noop |-> FALSE,
     seeded |-> <<>>, visited0 |-> {}]

\* no function is being called on its own
NoLab == [fn |-> "none"]

\* app_controller.py AppController.reset, as called by __init__
AppInit ==
    /\ running = FALSE
    /\ url_queue = <<>>
    /\ unfinished_tasks = 0
    /\ visited = {}
    /\ stored_links = <<>>
    /\ customers_info = <<>>
    /\ lock = Free
    /\ crawler = 0
    /\ producer_thread = 0
    /\ config_data = DefaultConfig
    /\ ui = IdleConsole
    /\ crawlers = [k \in Threads |-> UnbornCrawler]
    /\ producers = [k \in Threads |-> UnbornProducer]
    /\ starts = 0
    /\ edits = 0
    /\ enqueued = [u \in NormUrls |-> 0]
    /\ fetched = [u \in NormUrls |-> 0]

Init == AppInit /\ lab = NoLab

\* ------------------------------------------------------- console: start()
\* where the seeding loop of start() goes after URL number i
SeedNext(i) ==
    IF i + 1 > Len(ui.urls)
    THEN [ui EXCEPT !.pc = "spawn_crawler", !.i = 0]
    ELSE [ui EXCEPT !.pc = "seed_chk", !.i = i + 1]

\* AppController.start, lines 73-79: the running check, the flag, the read
\* of initial_urls.  A call while running returns at once.
StartCall ==
    /\ ui.pc = "idle"
    /\ running \/ starts < MaxStarts
    /\ IF running
       THEN /\ ui' = [ui EXCEPT !.pc = "ret", !.cmd = "start", !.noop = TRUE]
            /\ UNCHANGED <<appVars, starts>>
       ELSE /\ running' = TRUE
            /\ starts' = starts + 1
            /\ ui' = [pc |-> IF config_data.initial_urls = <<>>
                             THEN "spawn_crawler" ELSE "seed_chk",
                      urls |-> config_data.initial_urls,
                      i |-> IF config_data.initial_urls = <<>> THEN 0 ELSE 1,
                      cmd |-> "start", noop |-> FALSE,
                      seeded |-> <<>>, visited0 |-> visited]
            /\ UNCHANGED <<url_queue, unfinished_tasks, visited, stored_links,
                           customers_info, lock, crawler, producer_thread>>
    /\ UNCHANGED <<edits, config_data, crawlers, producers, enqueued, fetched, lab>>

\* a seeding loop that does not look at the Visited Set
StartSeedCheckNoDedup ==
    /\ ui.pc = "seed_chk"
    /\ ui' = [ui EXCEPT !.pc = "seed_put"]
    /\ UNCHANGED <<appVars, edits, config_data, crawlers, producers,
                   starts, enqueued, fetched, lab>>

\* start, lines 81-82: normalize the next initial URL, test the Visited Set
StartSeedCheck ==
    /\ ui.pc = "seed_chk"
    /\ ui' = IF Normalized[ui.urls[ui.i]] \notin visited
             THEN [ui EXCEPT !.pc = "seed_put"]
             ELSE SeedNext(ui.i)
    /\ UNCHANGED <<appVars, edits, config_data, crawlers, producers,
                   starts, enqueued, fetched, lab>>

\* start, line 83: put the URL on the queue
StartSeedPut ==
    /\ ui.pc = "seed_put"
    /\ LET n == Normalized[ui.urls[ui.i]] IN
        /\ url_queue' = put_url(url_queue, n)
        /\ enqueued' = [enqueued EXCEPT ![n] = @ + 1]
    /\ unfinished_tasks' = unfinished_tasks + 1
    /\ ui' = [ui EXCEPT !.pc = "seed_add",
                        !.seeded = Append(@, Normalized[ui.urls[ui.i]])]
    /\ UNCHANGED <<running, visited, stored_links, customers_info, lock, crawler,
                   producer_thread, edits, config_data, crawlers,
                   producers, starts, fetched, lab>>

\* a seeding loop that does not add to the Visited Set
StartSeedAddNothing ==
    /\ ui.pc = "seed_add"
    /\ ui' = SeedNext(ui.i)
    /\ UNCHANGED <<running, url_queue, unfinished_tasks, visited, stored_links,
                   customers_info, lock, crawler, producer_thread, edits,
                   config_data, crawlers, producers, starts, enqueued,
                   fetched, lab>>

\* start, line 84: add it to the Visited Set
StartSeedAdd ==
    /\ ui.pc = "seed_add"
    /\ visited' = visited \cup {Normalized[ui.urls[ui.i]]}
    /\ ui' = SeedNext(ui.i)
    /\ UNCHANGED <<running, url_queue, unfinished_tasks, stored_links,
                   customers_info, lock, crawler, producer_thread, edits, config_data, crawlers, producers, starts, enqueued,
                   fetched, lab>>

\* start, lines 87-97: create the Crawler (its __init__ reads max_customers)
\* and start it
StartSpawnCrawler ==
    /\ ui.pc = "spawn_crawler"
    /\ crawler' = starts
    /\ crawlers' = [crawlers EXCEPT ![starts] =
                      [UnbornCrawler EXCEPT
                          !.pc = "poll", !.running = TRUE,
                          !.max_customers = config_data.max_customers]]
    /\ ui' = [ui EXCEPT !.pc = "spawn_producer"]
    /\ UNCHANGED <<running, url_queue, unfinished_tasks, visited, stored_links,
                   customers_info, lock, producer_thread, edits, config_data, producers, starts, enqueued, fetched, lab>>

\* start, lines 100-102: create the URLProducer and start it
StartSpawnProducer ==
    /\ ui.pc = "spawn_producer"
    /\ producer_thread' = starts
    /\ producers' = [producers EXCEPT ![starts] =
                      [pc |-> "loop", running |-> TRUE, link |-> NoneUrl,
                       probability |-> 0]]
    /\ ui' = [ui EXCEPT !.pc = "ret"]
    /\ UNCHANGED <<running, url_queue, unfinished_tasks, visited, stored_links,
                   customers_info, lock, crawler, edits, config_data,
                   crawlers, starts, enqueued, fetched, lab>>

\* -------------------------------------------------------- console: stop()
\* a stop() without the test of the run flag
StopCallUnguarded(cmd) ==
    /\ ui.pc = "idle"
    /\ running' = FALSE
    /\ ui' = [ui EXCEPT !.pc = "stop_put", !.cmd = cmd, !.noop = FALSE]
    /\ UNCHANGED <<url_queue, unfinished_tasks, visited, stored_links,
                   customers_info, lock, crawler, producer_thread, edits,
                   config_data, crawlers, producers, starts, enqueued,
                   fetched, lab>>

\* AppController.stop, lines 108-110, called by the stop command, by the exit
\* command or by the Ctrl-C handler: return at once when not running, else
\* clear the run flag
StopCall(cmd) ==
    /\ ui.pc = "idle"
    /\ IF ~running
       THEN /\ ui' = [ui EXCEPT !.pc = "ret", !.cmd = cmd, !.noop = TRUE]
            /\ UNCHANGED running
       ELSE /\ running' = FALSE
            /\ ui' = [ui EXCEPT !.pc = "stop_put", !.cmd = cmd, !.noop = FALSE]
    /\ UNCHANGED <<url_queue, unfinished_tasks, visited, stored_links,
                   customers_info, lock, crawler, producer_thread, edits, config_data, crawlers, producers, starts, enqueued,
                   fetched, lab>>

\* stop, line 113: publish the sentinel
StopPutSentinel ==
    /\ ui.pc = "stop_put"
    /\ url_queue' = put_url(url_queue, NoneUrl)
    /\ unfinished_tasks' = unfinished_tasks + 1
    /\ ui' = [ui EXCEPT !.pc = "join_crawler"]
    /\ UNCHANGED <<running, visited, stored_links, customers_info, lock, crawler,
                   producer_thread, edits, config_data, crawlers,
                   producers, starts, enqueued, fetched, lab>>

\* a stop() that does not wait for the thread
JoinNoWait(alive) == TRUE

\* threading.Thread.join: returns once the thread has ended
join(alive) == ~alive

\* stop, lines 114-119: crawler.join(); then the producer's own flag is
\* cleared
StopJoinCrawler ==
    /\ ui.pc = "join_crawler"
    /\ crawler # 0 => join(CrawlerAlive(crawler))
    /\ producers' = IF producer_thread # 0 /\ ProducerAlive(producer_thread)
                    THEN [producers EXCEPT ![producer_thread].running = FALSE]
                    ELSE producers
    /\ ui' = [ui EXCEPT !.pc = "join_producer"]
    /\ UNCHANGED <<appVars, edits, config_data, crawlers, starts, enqueued, fetched, lab>>

\* stop, lines 120-123: producer_thread.join(); then both handles are
\* cleared
StopJoinProducer ==
    /\ ui.pc = "join_producer"
    /\ producer_thread # 0 => join(ProducerAlive(producer_thread))
    /\ crawler' = 0
    /\ producer_thread' = 0
    /\ ui' = [ui EXCEPT !.pc = "ret"]
    /\ UNCHANGED <<running, url_queue, unfinished_tasks, visited, stored_links,
                   customers_info, lock, edits, config_data, crawlers,
                   producers, starts, enqueued, fetched, lab>>

\* interface.py ConsoleUI.run, lines 172-178: the command has returned (pc
\* "ret" is the moment of its return); the loop reads the next command,
\* unless the exit command or Ctrl-C cleared ConsoleUI.running
ConsoleReturn ==
    /\ ui.pc = "ret"
    /\ ui' = [IdleConsole EXCEPT !.pc = IF ui.cmd = "exit" THEN "exited" ELSE "idle"]
    /\ UNCHANGED <<appVars, edits, config_data, crawlers, producers,
                   starts, enqueued, fetched, lab>>

\* ------------------------------------------------------------ Crawler.run
Range(q) == {q[i] : i \in 1..Len(q)}

\* what no step of a Crawler changes
crawlerFrame == <<edits, config_data, ui, producers, starts, lab>>

\* a worker that calls get_url without looking at the queue
CrawlerPollNoLook(k) ==
    /\ crawlers[k].pc = "poll"
    /\ crawlers' = IF ~crawlers[k].running
                   THEN [crawlers EXCEPT ![k] = DeadCrawler]
                   ELSE [crawlers EXCEPT ![k].pc = "get"]
    /\ UNCHANGED <<appVars, crawlerFrame, enqueued, fetched>>

\* run, lines 228-235: the loop test on the crawler's own flag; the first
\* look at the queue and, when it is empty, the idle delay (was_sleeping
\* only picks the messages); then the look at the queue that decides
CrawlerPoll(k) ==
    /\ crawlers[k].pc = "poll"
    /\ crawlers' = IF ~crawlers[k].running
                   THEN [crawlers EXCEPT ![k] = DeadCrawler]
                   ELSE [crawlers EXCEPT ![k].pc = IF empty(url_queue) THEN "chkrun" ELSE "get"]
    /\ UNCHANGED <<appVars, crawlerFrame, enqueued, fetched>>

\* a worker that gives up as soon as it sees the queue empty
CrawlerCheckRunningLeave(k) ==
    /\ crawlers[k].pc = "chkrun"
    /\ crawlers' = [crawlers EXCEPT ![k] = DeadCrawler]
    /\ UNCHANGED <<appVars, crawlerFrame, enqueued, fetched>>

\* run, lines 236-238: queue seen empty: leave when the run is stopped,
\* else go round again
CrawlerCheckRunning(k) ==
    /\ crawlers[k].pc = "chkrun"
    /\ crawlers' = IF ~running
                   THEN [crawlers EXCEPT ![k] = DeadCrawler]
                   ELSE [crawlers EXCEPT ![k].pc = "poll"]
    /\ UNCHANGED <<appVars, crawlerFrame, enqueued, fetched>>

\* a test that knows the sentinel only
IsTerminalSentinelOnly(url, done, max_customers) == url = NoneUrl

\* the test of line 241 on the item just taken
IsTerminal(url, done, max_customers) == url = NoneUrl \/ done >= max_customers

\* run, lines 240-241: get_url() waits for an item; the item is terminal
\* when it is the sentinel or max_customers results are there
CrawlerGet(k) ==
    /\ crawlers[k].pc = "get"
    /\ ~empty(url_queue)
    /\ url_queue' = Tail(url_queue)
    /\ crawlers' = [crawlers EXCEPT
          ![k].url = get_url(url_queue),
          ![k].n0 = Len(customers_info),
          ![k].pc = IF IsTerminal(get_url(url_queue), Len(customers_info),
                                  crawlers[k].max_customers)
                    THEN "done" ELSE "fetch"]
    /\ UNCHANGED <<running, unfinished_tasks, visited, stored_links,
                   customers_info, lock, crawler, producer_thread, crawlerFrame,
                   enqueued, fetched>>

\* a terminal item that is acknowledged and then ignored
CrawlerDoneNoBreak(k) ==
    /\ crawlers[k].pc = "done"
    /\ unfinished_tasks' = IF crawlers[k].url # NoneUrl
                           THEN unfinished_tasks - 1 ELSE unfinished_tasks
    /\ crawlers' = [crawlers EXCEPT ![k].pc = "poll", ![k].url = NoneUrl,
                                    ![k].n0 = 0]
    /\ UNCHANGED <<running, url_queue, visited, stored_links, customers_info,
                   lock, crawler, producer_thread, crawlerFrame, enqueued,
                   fetched>>

\* a terminal item that is acknowledged whatever it is
CrawlerDoneAckSentinel(k) ==
    /\ crawlers[k].pc = "done"
    /\ unfinished_tasks' = unfinished_tasks - 1
    /\ running' = FALSE
    /\ crawlers' = [crawlers EXCEPT ![k] = DeadCrawler]
    /\ UNCHANGED <<url_queue, visited, stored_links, customers_info, lock,
                   crawler, producer_thread, crawlerFrame, enqueued, fetched>>

\* run, lines 242-247: the terminal item: own flag cleared, the item
\* acknowledged unless it is the sentinel, the run flag cleared, break
CrawlerDone(k) ==
    /\ crawlers[k].pc = "done"
    /\ unfinished_tasks' = IF crawlers[k].url # NoneUrl
                           THEN unfinished_tasks - 1 ELSE unfinished_tasks
    /\ running' = FALSE
    /\ crawlers' = [crawlers EXCEPT ![k] = DeadCrawler]
    /\ UNCHANGED <<url_queue, visited, stored_links, customers_info, lock,
                   crawler, producer_thread, crawlerFrame, enqueued, fetched>>

\* run, lines 253-259 and 271-272: the delay, PageFetcher.fetch, the test
\* "if html" and, when it is true, Parser.parse
CrawlerFetch(k) ==
    /\ crawlers[k].pc = "fetch"
    /\ fetched' = [fetched EXCEPT ![crawlers[k].url] = @ + 1]
    /\ \E html \in Htmls :
         IF Truthy(html)
         THEN \E found_links \in PageLinks :
                crawlers' = [crawlers EXCEPT ![k].pc = "store", ![k].html = html,
                                             ![k].links = found_links]
         ELSE crawlers' = [crawlers EXCEPT ![k].pc = "ack", ![k].html = html]
    /\ UNCHANGED <<appVars, crawlerFrame, enqueued>>

\* AppController.store_links, lines 167-168: take the lock
CrawlerStoreLinks(k) ==
    /\ crawlers[k].pc = "store"
    /\ lock = Free
    /\ IF crawlers[k].links = <<>>
       THEN /\ crawlers' = [crawlers EXCEPT ![k].pc = "add"]
            /\ UNCHANGED lock
       ELSE /\ crawlers' = [crawlers EXCEPT ![k].pc = "storing", ![k].j = 1,
                                            ![k].pool0 = stored_links]
            /\ lock' = CrawlerId(k)
    /\ UNCHANGED <<running, url_queue, unfinished_tasks, visited, stored_links,
                   customers_info, crawler, producer_thread, crawlerFrame,
                   enqueued, fetched>>

\* a store_links that does not look at the Visited Set
StoreLinkNoVisitedCheck(pool, link, seen) ==
    IF link \notin Range(pool) THEN Append(pool, link) ELSE pool

\* a store_links that does not look at the Pool
StoreLinkNoPoolCheck(pool, link, seen) ==
    IF link \notin seen THEN Append(pool, link) ELSE pool

\* store_links, lines 169-170, for one link: append it unless it is visited
\* or already stored
StoreLink(pool, link, seen) ==
    IF link \notin seen /\ link \notin Range(pool) THEN Append(pool, link) ELSE pool

\* store_links, one turn of the loop; the lock is released after the last
CrawlerStoreLink(k) ==
    /\ crawlers[k].pc = "storing"
    /\ stored_links' = StoreLink(stored_links, crawlers[k].links[crawlers[k].j], visited)
    /\ IF crawlers[k].j = Len(crawlers[k].links)
       THEN /\ crawlers' = [crawlers EXCEPT ![k].pc = "add", ![k].j = 0,
                                            ![k].pool0 = <<>>]
            /\ lock' = Free
       ELSE /\ crawlers' = [crawlers EXCEPT ![k].j = @ + 1]
            /\ UNCHANGED lock
    /\ UNCHANGED <<running, url_queue, unfinished_tasks, visited, customers_info,
                   crawler, producer_thread, crawlerFrame, enqueued, fetched>>

\* models.py Customer, as built on line 264
Customer(url, found_links) == [url |-> url, found_links_count |-> Len(found_links)]

\* an add_customer that puts the new result first
CrawlerAddCustomerFront(k) ==
    /\ crawlers[k].pc = "add"
    /\ lock = Free
    /\ customers_info' = <<Customer(crawlers[k].url, crawlers[k].links)>> \o customers_info
    /\ crawlers' = [crawlers EXCEPT ![k].pc = "ack", ![k].links = <<>>]
    /\ UNCHANGED <<running, url_queue, unfinished_tasks, visited, stored_links,
                   lock, crawler, producer_thread, crawlerFrame, enqueued, fetched>>

\* AppController.add_customer (run, lines 264-266): under the lock
CrawlerAddCustomer(k) ==
    /\ crawlers[k].pc = "add"
    /\ lock = Free
    /\ customers_info' = Append(customers_info, Customer(crawlers[k].url, crawlers[k].links))
    /\ crawlers' = [crawlers EXCEPT ![k].pc = "ack", ![k].links = <<>>]
    /\ UNCHANGED <<running, url_queue, unfinished_tasks, visited, stored_links,
                   lock, crawler, producer_thread, crawlerFrame, enqueued, fetched>>

\* run, lines 274-275: task_done() and the delay
CrawlerTaskDone(k) ==
    /\ crawlers[k].pc = "ack"
    /\ unfinished_tasks' = unfinished_tasks - 1
    /\ crawlers' = [crawlers EXCEPT ![k].pc = "poll", ![k].url = NoneUrl,
                                    ![k].html = HtmlNone, ![k].n0 = 0]
    /\ UNCHANGED <<running, url_queue, visited, stored_links, customers_info,
                   lock, crawler, producer_thread, crawlerFrame, enqueued, fetched>>

\* -------------------------------------------------------- URLProducer.run
\* list.remove(link): drop the first entry equal to link
RECURSIVE remove(_, _)
remove(pool, link) ==
    IF pool = <<>> THEN <<>>
    ELSE IF Head(pool) = link THEN Tail(pool)
    ELSE <<Head(pool)>> \o remove(Tail(pool), link)

\* truth value of the string urlunparse builds: false for the empty string
IsNonEmpty(url) == url.scheme # <<>> \/ url.netloc # <<>> \/ url.path # <<>>

\* run, lines 311-314: the loop test on the producer's own flag, then the
\* two sleeps
ProducerLoop(k) ==
    /\ producers[k].pc = "loop"
    /\ producers' = IF producers[k].running
                    THEN [producers EXCEPT ![k].pc = "wake"]
                    ELSE [producers EXCEPT ![k] = DeadProducer]
    /\ UNCHANGED <<appVars, edits, config_data, ui, crawlers, starts, enqueued, fetched, lab>>

\* config.py Config.reload, as called by AppController.reload_config: the
\* file's content replaces Config.data
Reloaded == {config_data} \cup {c \in ConfigChoices : edits < MaxEdits}

\* a cycle that does not look at the wake-up switch
ProducerWakeAlways(k) ==
    /\ producers[k].pc = "wake"
    /\ IF ~running
       THEN /\ producers' = [producers EXCEPT ![k] = DeadProducer]
            /\ UNCHANGED <<config_data, edits>>
       ELSE \E c \in Reloaded :
            /\ config_data' = c
            /\ edits' = IF c = config_data THEN edits ELSE edits + 1
            /\ producers' = [producers EXCEPT
                  ![k].pc = "lock",
                  ![k].probability = c.new_customer_probability]
    /\ UNCHANGED <<appVars, ui, crawlers, starts, enqueued, fetched, lab>>

\* run, lines 316-323: leave when the run is stopped; else reload the
\* configuration and read the wake-up switch and the probability
ProducerWake(k) ==
    /\ producers[k].pc = "wake"
    /\ IF ~running
       THEN /\ producers' = [producers EXCEPT ![k] = DeadProducer]
            /\ UNCHANGED <<config_data, edits>>
       ELSE \E c \in Reloaded :
            /\ config_data' = c
            /\ edits' = IF c = config_data THEN edits ELSE edits + 1
            /\ producers' = [producers EXCEPT
                  ![k].pc = IF c.enable_wakeup_from_stored_urls THEN "lock" ELSE "loop",
                  ![k].probability = IF c.enable_wakeup_from_stored_urls
                                     THEN c.new_customer_probability ELSE 0]
    /\ UNCHANGED <<appVars, ui, crawlers, starts, enqueued, fetched, lab>>

\* run, lines 324-328: take the lock; when the Pool is not empty and the
\* draw is below the probability, pick an entry and remove it; else leave
\* the critical section
ProducerDraw(k) ==
    /\ producers[k].pc = "lock"
    /\ lock = Free
    /\ \E draw \in Draws :
         IF stored_links # <<>> /\ draw < producers[k].probability
         THEN \E idx \in 1..Len(stored_links) :
                /\ stored_links' = remove(stored_links, stored_links[idx])
                /\ producers' = [producers EXCEPT ![k].pc = "chk",
                                                  ![k].link = stored_links[idx],
                                                  ![k].probability = 0]
                /\ lock' = ProducerId(k)
         ELSE /\ producers' = [producers EXCEPT ![k].pc = "loop", ![k].probability = 0]
              /\ UNCHANGED <<stored_links, lock>>
    /\ UNCHANGED <<running, url_queue, unfinished_tasks, visited, customers_info,
                   crawler, producer_thread, edits, config_data, ui,
                   crawlers, starts, enqueued, fetched, lab>>

\* run, lines 330-331 and 340-341: normalize the entry; a duplicate is
\* dropped and the lock released
ProducerCheckVisited(k) ==
    /\ producers[k].pc = "chk"
    /\ LET normalized_link == Normalized[producers[k].link] IN
         IF IsNonEmpty(normalized_link) /\ normalized_link \notin visited
         THEN /\ producers' = [producers EXCEPT ![k].pc = "size"]
              /\ UNCHANGED lock
         ELSE /\ producers' = [producers EXCEPT ![k].pc = "loop", ![k].link = NoneUrl]
              /\ lock' = Free
    /\ UNCHANGED <<running, url_queue, unfinished_tasks, visited, stored_links,
                   customers_info, crawler, producer_thread, edits, config_data, ui, crawlers, starts, enqueued, fetched, lab>>

\* the capacity test of line 332
HasRoom(q, max_queue_size) == size(q) < max_queue_size

\* a capacity test that leaves the critical section with the lock held
\* when the queue is full
ProducerCheckSizeKeepLock(k) ==
    /\ producers[k].pc = "size"
    /\ IF HasRoom(url_queue, config_data.max_queue_size)
       THEN producers' = [producers EXCEPT ![k].pc = "put"]
       ELSE producers' = [producers EXCEPT ![k].pc = "loop", ![k].link = NoneUrl]
    /\ UNCHANGED <<running, url_queue, unfinished_tasks, visited, stored_links,
                   customers_info, lock, crawler, producer_thread, edits,
                   config_data, ui, crawlers, starts, enqueued, fetched, lab>>

\* a capacity test that gives the entry back to the Pool when the queue is
\* full
ProducerCheckSizePutBack(k) ==
    /\ producers[k].pc = "size"
    /\ IF HasRoom(url_queue, config_data.max_queue_size)
       THEN /\ producers' = [producers EXCEPT ![k].pc = "put"]
            /\ UNCHANGED <<lock, stored_links>>
       ELSE /\ producers' = [producers EXCEPT ![k].pc = "loop", ![k].link = NoneUrl]
            /\ stored_links' = Append(stored_links, producers[k].link)
            /\ lock' = Free
    /\ UNCHANGED <<running, url_queue, unfinished_tasks, visited,
                   customers_info, crawler, producer_thread, edits, config_data,
                   ui, crawlers, starts, enqueued, fetched, lab>>

\* run, lines 332 and 338-339: with the queue full the entry is dropped and
\* the lock released
ProducerCheckSize(k) ==
    /\ producers[k].pc = "size"
    /\ IF HasRoom(url_queue, config_data.max_queue_size)
       THEN /\ producers' = [producers EXCEPT ![k].pc = "put"]
            /\ UNCHANGED lock
       ELSE /\ producers' = [producers EXCEPT ![k].pc = "loop", ![k].link = NoneUrl]
            /\ lock' = Free
    /\ UNCHANGED <<running, url_queue, unfinished_tasks, visited, stored_links,
                   customers_info, crawler, producer_thread, edits, config_data, ui, crawlers, starts, enqueued, fetched, lab>>

\* run, line 333: put the entry on the queue
ProducerPut(k) ==
    /\ producers[k].pc = "put"
    /\ LET normalized_link == Normalized[producers[k].link] IN
        /\ url_queue' = put_url(url_queue, normalized_link)
        /\ enqueued' = [enqueued EXCEPT ![normalized_link] = @ + 1]
    /\ unfinished_tasks' = unfinished_tasks + 1
    /\ producers' = [producers EXCEPT ![k].pc = "add"]
    /\ UNCHANGED <<running, visited, stored_links, customers_info, lock, crawler,
                   producer_thread, edits, config_data, ui, crawlers,
                   starts, fetched, lab>>

\* a critical section that is left without releasing the lock
ProducerAddVisitedKeepLock(k) ==
    /\ producers[k].pc = "add"
    /\ visited' = visited \cup {Normalized[producers[k].link]}
    /\ producers' = [producers EXCEPT ![k].pc = "loop", ![k].link = NoneUrl]
    /\ UNCHANGED <<running, url_queue, unfinished_tasks, stored_links,
                   customers_info, lock, crawler, producer_thread, edits,
                   config_data, ui, crawlers, starts, enqueued, fetched, lab>>

\* run, lines 334-337: add it to the Visited Set and leave the critical
\* section
ProducerAddVisited(k) ==
    /\ producers[k].pc = "add"
    /\ visited' = visited \cup {Normalized[producers[k].link]}
    /\ lock' = Free
    /\ producers' = [producers EXCEPT ![k].pc = "loop", ![k].link = NoneUrl]
    /\ UNCHANGED <<running, url_queue, unfinished_tasks, stored_links,
                   customers_info, crawler, producer_thread, edits, config_data, ui, crawlers, starts, enqueued, fetched, lab>>

\* ------------------------------------------------------------------- spec
Console ==
    \/ StartCall
    \/ StartSeedCheck
    \/ StartSeedPut
    \/ StartSeedAdd
    \/ StartSpawnCrawler
    \/ StartSpawnProducer
    \/ \E cmd \in {"stop", "exit"} : StopCall(cmd)
    \/ StopPutSentinel
    \/ StopJoinCrawler
    \/ StopJoinProducer
    \/ ConsoleReturn

CrawlerStep(k) ==
    \/ CrawlerPoll(k)
    \/ CrawlerCheckRunning(k)
    \/ CrawlerGet(k)
    \/ CrawlerDone(k)
    \/ CrawlerFetch(k)
    \/ CrawlerStoreLinks(k)
    \/ CrawlerStoreLink(k)
    \/ CrawlerAddCustomer(k)
    \/ CrawlerTaskDone(k)

ProducerStep(k) ==
    \/ ProducerLoop(k)
    \/ ProducerWake(k)
    \/ ProducerDraw(k)
    \/ ProducerCheckVisited(k)
    \/ ProducerCheckSize(k)
    \/ ProducerPut(k)
    \/ ProducerAddVisited(k)

Next ==
    \/ Console
    \/ \E k \in Threads : CrawlerStep(k)
    \/ \E k \in Threads : ProducerStep(k)

Spec == Init /\ [][Next]_vars

\* Scheduling.  A command, once called, runs on: the console thread takes
\* the steps of start() and stop() and returns; what the user types next
\* is not forced.  Every thread that can take a step takes it in the end
\* (its sleeps are finite, each fetch returns).  A draw against a
\* probability above 0 is not lost for ever.
ConsoleProgress ==
    \/ StartSeedCheck
    \/ StartSeedPut
    \/ StartSeedAdd
    \/ StartSpawnCrawler
    \/ StartSpawnProducer
    \/ StopPutSentinel
    \/ StopJoinCrawler
    \/ StopJoinProducer
    \/ ConsoleReturn

ProducerDrawHit(k) == ProducerDraw(k) /\ lock' = ProducerId(k)

Fairness ==
    /\ WF_vars(ConsoleProgress)
    /\ \A k \in Threads : WF_vars(CrawlerStep(k))
    /\ \A k \in Threads : WF_vars(ProducerStep(k))
    /\ \A k \in Threads : SF_vars(ProducerDrawHit(k))

FairSpec == Spec /\ Fairness

\* ------------------------------------------------- functions on their own
\* The specifications below call one function or one class of the program
\* on its own, on inputs drawn from small sets; the controller and its
\* threads stay as AppInit leaves them.
labFrame == <<running, url_queue, unfinished_tasks, visited, stored_links,
              customers_info, lock, crawler, producer_thread, config_data, ui,
              crawlers, producers, starts, edits, enqueued, fetched>>

\* ---- URLQueue
\* put_url calls made on the queue
MaxPuts == 3

\* the items put: two URLs and the sentinel
QueueItems == {UrlA, UrlB, NoneUrl}

\* URLQueue.__init__: an empty queue; puts and gets are the items put and
\* the items got so far
QueueInit ==
    /\ AppInit
    /\ lab = [fn |-> "URLQueue", q |-> <<>>, puts |-> <<>>, gets |-> <<>>]

\* URLQueue.put_url(item)
QueuePut(item) ==
    /\ Len(lab.puts) < MaxPuts
    /\ lab' = [lab EXCEPT !.q = put_url(@, item), !.puts = Append(@, item)]
    /\ UNCHANGED labFrame

\* URLQueue.get_url(), which returns once the queue holds an item
QueueGet ==
    /\ ~empty(lab.q)
    /\ lab' = [lab EXCEPT !.q = Tail(@), !.gets = Append(@, get_url(lab.q))]
    /\ UNCHANGED labFrame

QueueNext ==
    \/ \E item \in QueueItems : QueuePut(item)
    \/ QueueGet

QueueSpec == QueueInit /\ [][QueueNext]_vars

\* ---- PageFetcher.fetch
\* session.get calls that one call of fetch is followed through
MaxGets == 5

\* PageFetcher(max_retries=3), as AppController.reset creates it
max_retries == 3

\* the bodies a response may carry
Bodies == {"", "<a>"}

\* session.get raised a requests.exceptions.RequestException (a timeout,
\* a refused connection)
RequestException == [exc |-> TRUE, status_code |-> 0, text |-> ""]

\* what one session.get may do: a response with its status code and its
\* body, or the exception
Responses ==
    {[exc |-> FALSE, status_code |-> c, text |-> t] : c \in {200, 429, 404, 500}, t \in Bodies}
        \cup {RequestException}

\* fetch, lines 138-139: attempt and backoff; log is the session.get calls
\* so far, each with what it did, sleeps the time.sleep calls so far
FetchInit ==
    /\ AppInit
    /\ lab = [fn |-> "fetch", pc |-> "while", attempt |-> 0, backoff |-> 1,
              log |-> <<>>, sleeps |-> <<>>, result |-> HtmlNone]

\* an attempt that counts a 429 response as it counts a transport error
FetchAttempt429Counts ==
    /\ lab.pc = "while"
    /\ lab.attempt < max_retries
    /\ Len(lab.log) < MaxGets
    /\ \E r \in Responses :
         lab' = IF r.exc \/ r.status_code = 429
                THEN [lab EXCEPT !.log = Append(@, r),
                                 !.attempt = @ + 1,
                                 !.sleeps = Append(@, lab.backoff),
                                 !.backoff = 2 * @]
                ELSE IF r.status_code = 200
                THEN [lab EXCEPT !.log = Append(@, r), !.pc = "returned",
                                 !.result = r.text]
                ELSE [lab EXCEPT !.log = Append(@, r), !.pc = "returned",
                                 !.result = HtmlNone]
    /\ UNCHANGED labFrame

\* an attempt that waits and tries again after every status but 200
FetchAttemptRetryAll ==
    /\ lab.pc = "while"
    /\ lab.attempt < max_retries
    /\ Len(lab.log) < MaxGets
    /\ \E r \in Responses :
         lab' = IF r.exc
                THEN [lab EXCEPT !.log = Append(@, r),
                                 !.attempt = @ + 1,
                                 !.sleeps = Append(@, lab.backoff),
                                 !.backoff = 2 * @]
                ELSE IF r.status_code = 200
                THEN [lab EXCEPT !.log = Append(@, r), !.pc = "returned",
                                 !.result = r.text]
                ELSE [lab EXCEPT !.log = Append(@, r),
                                 !.sleeps = Append(@, lab.backoff),
                                 !.backoff = 2 * @]
    /\ UNCHANGED labFrame

\* fetch, lines 140-157: one turn of the loop: session.get and what
\* follows from its response
FetchAttempt ==
    /\ lab.pc = "while"
    /\ lab.attempt < max_retries
    /\ Len(lab.log) < MaxGets
    /\ \E r \in Responses :
         lab' = IF r.exc
                THEN [lab EXCEPT !.log = Append(@, r),
                                 !.attempt = @ + 1,
                                 !.sleeps = Append(@, lab.backoff),
                                 !.backoff = 2 * @]
                ELSE IF r.status_code = 200
                THEN [lab EXCEPT !.log = Append(@, r), !.pc = "returned",
                                 !.result = r.text]
                ELSE IF r.status_code = 429
                THEN [lab EXCEPT !.log = Append(@, r),
                                 !.sleeps = Append(@, lab.backoff),
                                 !.backoff = 2 * @]
                ELSE [lab EXCEPT !.log = Append(@, r), !.pc = "returned",
                                 !.result = HtmlNone]
    /\ UNCHANGED labFrame

\* fetch, lines 140 and 158: the loop test fails, fetch returns None
FetchExhausted ==
    /\ lab.pc = "while"
    /\ lab.attempt >= max_retries
    /\ lab' = [lab EXCEPT !.pc = "returned", !.result = HtmlNone]
    /\ UNCHANGED labFrame

FetchNext ==
    \/ FetchAttempt
    \/ FetchExhausted

FetchSpec == FetchInit /\ [][FetchNext]_vars

\* ---- count_keywords
\* the longest page content a call is given
MaxHtmlLen == 5

\* the longest keyword list a call is given
MaxKeywords == 2

\* the characters of a page content
HtmlChars == {"x", "X", " "}

\* the keywords a configuration may list
KeywordChoices == {<<"x">>, <<"X">>, <<"x", "x">>, <<" ", "x">>}

\* the strings over a set of characters, up to a length
StringsUpTo(chars, n) == UNION {[1..m -> chars] : m \in 0..n}

\* whether sub stands in text from index i on (indices from 1)
StartsAt(text, sub, i) ==
    /\ i + Len(sub) - 1 <= Len(text)
    /\ \A d \in 1..Len(sub) : text[i + d - 1] = sub[d]

\* str.count(sub): scans from the left and goes on behind each occurrence
\* found; the empty string is found between all characters
RECURSIVE countFrom(_, _, _)
countFrom(text, sub, i) ==
    IF i + Len(sub) - 1 > Len(text) THEN 0
    ELSE IF StartsAt(text, sub, i) THEN 1 + countFrom(text, sub, i + Len(sub))
    ELSE countFrom(text, sub, i + 1)

\* a count that takes every occurrence, the overlapping ones too
countOverlapping(text, sub) ==
    Cardinality({i \in 1..(Len(text) + 1) : StartsAt(text, sub, i)})

count(text, sub) ==
    IF sub = <<>> THEN Len(text) + 1 ELSE countFrom(text, sub, 1)

\* count_keywords: a dict whose keys are the keywords in lower case
count_keywords(html, keywords) ==
    IF keywords = <<>> THEN <<>>
    ELSE LET text == Lower(html) IN
         [kw \in {Lower(keywords[i]) : i \in 1..Len(keywords)} |->
            count(text, kw)]

KeywordInit ==
    /\ AppInit
    /\ \E html \in StringsUpTo(HtmlChars, MaxHtmlLen) :
       \E keywords \in StringsUpTo(KeywordChoices, MaxKeywords) :
         lab = [fn |-> "count_keywords", pc |-> "call", html |-> html,
                keywords |-> keywords, counts |-> <<>>]

KeywordCall ==
    /\ lab.pc = "call"
    /\ lab' = [lab EXCEPT !.pc = "returned",
                          !.counts = count_keywords(lab.html, lab.keywords)]
    /\ UNCHANGED labFrame

KeywordNext == KeywordCall

KeywordSpec == KeywordInit /\ [][KeywordNext]_vars

\* ---- normalize_url
\* the URLs a page may link to, as urlparse splits them
RawSchemes == {Http, Https, <<"H", "T", "T", "P">>}

RawNetlocs ==
    {<<"e">>, <<"E">>, <<"e", ":", "8", "0">>, <<"e", ":", "4", "4", "3">>,
     <<"e", ":", "8", "1">>, <<"u", "@", "e">>, <<"[", ":", ":", "1", "]">>}

RawPaths ==
    {<<>>, <<"/">>, <<"/", "A", "/">>, <<"/", "a", "/", "/">>,
     <<"/", "a", ";", "p">>, <<"/", "a", ";", "p", "/">>}

RawQueries == {<<>>, <<"s">>}

NormInit ==
    /\ AppInit
    /\ \E sc \in RawSchemes, n \in RawNetlocs, p \in RawPaths, q \in RawQueries :
         lab = [fn |-> "normalize_url", pc |-> "call", u |-> Url(sc, n, p, q),
                once |-> Url(<<>>, <<>>, <<>>, <<>>),
                twice |-> Url(<<>>, <<>>, <<>>, <<>>)]

\* normalize_url(u): what Parser.parse and Crawler.run store
NormOnce ==
    /\ lab.pc = "call"
    /\ lab' = [lab EXCEPT !.pc = "once", !.once = normalize_url(lab.u)]
    /\ UNCHANGED labFrame

\* normalize_url of the stored key, as URLProducer.run calls it on a Pool
\* entry: the string urlunparse made is parsed again
NormTwice ==
    /\ lab.pc = "once"
    /\ lab.once # ValueError
    /\ lab' = [lab EXCEPT !.pc = "twice", !.twice = normalize_url(lab.once)]
    /\ UNCHANGED labFrame

NormNext ==
    \/ NormOnce
    \/ NormTwice

NormSpec == NormInit /\ [][NormNext]_vars

\* ----------------------------------------------------------------- claims
\* the moment a call of stop() returns (from the stop or the exit command)
StopReturned == ui.pc = "ret" /\ ui.cmd \in {"stop", "exit"}

\* the console thread is not inside start() or stop()
ConsoleAtRest == ui.pc \in {"ret", "idle", "exited"}

\* C1: after stop() has returned, is_running() is false, and until a
\* later start() no CrawlResult is appended.  Only start() sets the run
\* flag, so every state between the return of stop() and the next start()
\* has the flag false and the console outside start() and stop(): in such
\* a state no step appends to customers_info.
C1_NoResultAfterStop ==
    /\ [](StopReturned => ~running)
    /\ [][(~running /\ ConsoleAtRest) => customers_info' = customers_info]_vars

\* C1 witness: a stop() that found the run running has returned, results
\* were recorded, and a URL is still waiting in the queue
C1_Witness ==
    /\ StopReturned /\ ~ui.noop
    /\ customers_info # <<>>
    /\ \E i \in 1..Len(url_queue) : url_queue[i] # NoneUrl

\* C2: after any call of stop() returns, no Crawler and no URLProducer
\* thread is alive and both handles are cleared
C2_NoThreadAfterStop ==
    StopReturned =>
        /\ crawler = 0
        /\ producer_thread = 0
        /\ \A k \in Threads : ~CrawlerAlive(k) /\ ~ProducerAlive(k)

\* C3: no URL is put on the queue more than once
C3_AtMostOnceEnqueue == \A u \in NormUrls : enqueued[u] <= 1

\* C4: a Crawler that is fetching or recording a page has fewer than its
\* max_customers results before it, and every step that appends a result
\* is its add_customer and leaves at most max_customers results
C4_MaxCustomers ==
    /\ [](\A k \in Threads :
            crawlers[k].pc \in {"fetch", "store", "storing", "add"}
                => Len(customers_info) < crawlers[k].max_customers)
    /\ [][customers_info' # customers_info =>
            \E k \in Threads :
                /\ crawlers[k].pc = "add"
                /\ Len(customers_info') <= crawlers[k].max_customers]_vars

\* C4 witness: with max_customers results recorded, the worker has taken
\* a further URL from the queue and is about to end the run without
\* fetching it
C4_Witness ==
    \E k \in Threads :
        /\ crawlers[k].pc = "done"
        /\ crawlers[k].url # NoneUrl
        /\ Len(customers_info) = crawlers[k].max_customers

\* C6: a stop() called while the run flag is false returns at once and
\* changes nothing: no sentinel, same queue, Visited Set, Pool, results,
\* run flag, lock, handles, threads and configuration
C6_StopNoOp ==
    [][(ui.pc = "idle" /\ ~running /\ ui'.cmd \in {"stop", "exit"}) =>
            /\ ui'.pc = "ret"
            /\ ui'.noop
            /\ UNCHANGED <<appVars, crawlers, producers, config_data>>]_vars

\* C6 witness: a stop() that found the run flag false has returned, after
\* a run, with the queue not empty
C6_Witness == StopReturned /\ ui.noop /\ starts > 0 /\ url_queue # <<>>

\* C8: once the worker has terminated, every URL that was ever enqueued has
\* been handed to fetch exactly once and the queue holds no URL
C8_NoWorkLost ==
    (starts > 0 /\ crawlers[starts].pc = "dead") =>
        /\ \A u \in NormUrls : enqueued[u] > 0 => fetched[u] = 1
        /\ \A i \in 1..Len(url_queue) : url_queue[i] = NoneUrl

\* C9: at most one Crawler and at most one URLProducer thread are alive
C9_OneWorkerOneProducer ==
    /\ Cardinality({k \in Threads : CrawlerAlive(k)}) <= 1
    /\ Cardinality({k \in Threads : ProducerAlive(k)}) <= 1

\* what start() is to put on the queue for the list urls, the Visited Set
\* being seen: in list order, each normalized URL not seen before
RECURSIVE ExpectedSeed(_, _)
ExpectedSeed(urls, seen) ==
    IF urls = <<>> THEN <<>>
    ELSE LET n == normalize_url(Head(urls)) IN
         IF n \in seen THEN ExpectedSeed(Tail(urls), seen)
         ELSE <<n>> \o ExpectedSeed(Tail(urls), seen \cup {n})

\* the moment a call of start() returns
StartReturned == ui.pc = "ret" /\ ui.cmd = "start"

\* C10: start() called while not running sets the run flag and counts one
\* more run; when it returns it has created the Crawler and the
\* URLProducer of that run and no other, and (no other thread having added
\* to the Visited Set meanwhile) it has put on the queue, in configuration
\* order, exactly the normalized initial URLs that were not in the Visited
\* Set, each now in the Visited Set: for ["HTTP://E:80/A/?s", "http://e/c"]
\* and an empty Visited Set these are "http://e/a", "http://e/c".  start()
\* called while running returns at once and changes nothing.
C10_Start ==
    /\ [][(ui.pc = "idle" /\ ui'.cmd = "start") =>
            IF running
            THEN /\ ui'.pc = "ret" /\ ui'.noop
                 /\ UNCHANGED <<appVars, crawlers, producers, config_data, starts>>
            ELSE /\ running' /\ ~ui'.noop
                 /\ starts' = starts + 1
                 /\ ui'.urls = config_data.initial_urls]_vars
    /\ []((StartReturned /\ ~ui.noop) =>
            /\ crawler = starts /\ producer_thread = starts
            /\ crawlers[starts].pc # "unborn" /\ producers[starts].pc # "unborn"
            /\ \A k \in Threads : k > starts =>
                   crawlers[k].pc = "unborn" /\ producers[k].pc = "unborn"
            /\ Range(ui.seeded) \subseteq visited
            /\ visited = ui.visited0 \cup Range(ui.seeded) =>
                   ui.seeded = ExpectedSeed(ui.urls, ui.visited0)
            /\ (ui.urls = <<RawA1, UrlC>> /\ ui.visited0 = {}) =>
                   ui.seeded = <<UrlA, UrlC>>)

\* C10 witness: a start() has returned that found one of its two initial
\* URLs in the Visited Set and put the other one on the queue
C10_Witness ==
    /\ StartReturned /\ ~ui.noop
    /\ Len(ui.urls) = 2 /\ Len(ui.seeded) = 1
    /\ visited = ui.visited0 \cup Range(ui.seeded)

\* the Crawler k has just appended the result that brings the results to
\* its max_customers
JustReachedMax(k) ==
    /\ crawlers[k].pc = "ack"
    /\ Len(customers_info) >= crawlers[k].max_customers

\* the Crawler k is in its loop with max_customers results recorded
AtMax(k) ==
    /\ crawlers[k].pc \in {"ack", "poll", "chkrun", "get"}
    /\ Len(customers_info) >= crawlers[k].max_customers

\* the Crawler k has left its loop and the run is marked stopped
Terminated(k) == crawlers[k].pc = "dead" /\ ~running

\* C5 as stated: after the append that brings the results to
\* max_customers, the worker eventually leaves its loop and the run is
\* marked stopped
C5_TerminatesAtMax ==
    \A k \in Threads : JustReachedMax(k) ~> Terminated(k)

\* C5 amended: whenever max_customers results are recorded and the queue
\* holds an item, the worker eventually leaves its loop and the run is
\* marked stopped.  (With the queue empty the worker goes on polling: it
\* tests the number of results only on an item it has taken.)
C5_TerminatesAtMaxWithItem ==
    \A k \in Threads : (AtMax(k) /\ url_queue # <<>>) ~> Terminated(k)

\* C5 witness: the worker took a URL from the queue with max_customers
\* results recorded, and ends the run
C5_Witness ==
    \E k \in Threads :
        /\ crawlers[k].pc = "done"
        /\ crawlers[k].url # NoneUrl
        /\ Len(customers_info) >= crawlers[k].max_customers
        /\ running

\* C7: every stop() that found the run running eventually returns, and
\* when it returns no Crawler is alive and the URLProducer of the run has
\* ended
C7_StopReturns ==
    (ui.pc = "stop_put") ~>
        (/\ StopReturned /\ ~ui.noop
         /\ \A k \in Threads : ~CrawlerAlive(k)
         /\ ~ProducerAlive(starts))

\* C7 witness: stop() has published the sentinel and waits for a worker
\* that is in the middle of a page, with a URL queued before the sentinel
C7_Witness ==
    /\ ui.pc = "join_crawler"
    /\ crawler # 0 /\ crawlers[crawler].pc = "store"
    /\ Len(url_queue) >= 2

\* the links of a list that are neither in the set seen nor in the
\* sequence pool, in the order of the list
RECURSIVE NotSeen(_, _, _)
NotSeen(links, seen, pool) ==
    IF links = <<>> THEN <<>>
    ELSE IF Head(links) \notin seen /\ Head(links) \notin Range(pool)
         THEN <<Head(links)>> \o NotSeen(Tail(links), seen, pool)
         ELSE NotSeen(Tail(links), seen, pool)

\* a list without the repetitions of its entries: each entry stays where
\* it stands first
RECURSIVE FirstOccurrences(_)
FirstOccurrences(links) ==
    IF links = <<>> THEN <<>>
    ELSE LET front == FirstOccurrences(SubSeq(links, 1, Len(links) - 1))
             last == links[Len(links)]
         IN  IF last \in Range(front) THEN front ELSE Append(front, last)

\* no entry stands twice in the sequence
NoRepetition(pool) == Cardinality(Range(pool)) = Len(pool)

\* no step adds a URL of the Visited Set to the Pool, and the Pool never
\* holds a URL twice
PoolKeepsClear ==
    /\ [][\A u \in Range(stored_links') \ Range(stored_links) : u \notin visited]_vars
    /\ [](NoRepetition(stored_links))

\* C11 as stated: when store_links(links) returns, the Pool is the Pool of
\* the time of the call followed by every link of the list that was then
\* neither in the Visited Set nor in the Pool; no URL of the Visited Set is
\* added to the Pool and the Pool never holds a URL twice
C11_StoreLinksExactly ==
    /\ [][\A k \in Threads :
            (crawlers[k].pc = "storing" /\ crawlers'[k].pc = "add") =>
                stored_links' = crawlers[k].pool0 \o
                    NotSeen(crawlers[k].links, visited, crawlers[k].pool0)]_vars
    /\ PoolKeepsClear

\* C11 amended: when store_links(links) returns, the Pool is the Pool of
\* the time of the call followed by the links of the list that were then
\* neither in the Visited Set nor in the Pool, each once, where it stands
\* first in the list (all of the distinct links when both are empty); no
\* URL of the Visited Set is added to the Pool and the Pool never holds a
\* URL twice
C11_StoreLinksOnce ==
    /\ [][\A k \in Threads :
            (crawlers[k].pc = "storing" /\ crawlers'[k].pc = "add") =>
                stored_links' = crawlers[k].pool0 \o
                    FirstOccurrences(NotSeen(crawlers[k].links, visited,
                                             crawlers[k].pool0))]_vars
    /\ PoolKeepsClear

\* C11 witness: store_links has returned for a page whose links are one
\* visited URL and one new URL twice: the Pool holds the new URL once
C11_Witness ==
    \E k \in Threads :
        /\ crawlers[k].pc = "add"
        /\ crawlers[k].links = <<UrlA, UrlB, UrlB>>
        /\ UrlA \in visited
        /\ stored_links = <<UrlB>>

\* C12: every step leaves the results as they are or is the add_customer
\* of a Crawler and puts exactly one entry, the Customer of the page it has
\* fetched, at the end: the entries before it keep their places and their
\* values (so every earlier value of the sequence is a prefix of every
\* later one)
C12_AppendOnly ==
    [][\/ customers_info' = customers_info
       \/ /\ Len(customers_info') = Len(customers_info) + 1
          /\ SubSeq(customers_info', 1, Len(customers_info)) = customers_info
          /\ \E k \in Threads :
                /\ crawlers[k].pc = "add"
                /\ customers_info'[Len(customers_info')] =
                       Customer(crawlers[k].url, crawlers[k].links)]_vars

\* C12 witness: a second result has been appended behind a first one of
\* another page
C12_Witness ==
    /\ Len(customers_info) = 2
    /\ customers_info[1] # customers_info[2]

\* C13: when the worker has dealt with a URL it took from the queue (it is
\* about to call task_done): if fetch returned None there is no new result;
\* if fetch returned content there is exactly one new result, the last,
\* and it carries that URL; in both cases the worker is still running
C13_ResultPerFetch ==
    \A k \in Threads :
        crawlers[k].pc = "ack" =>
            /\ crawlers[k].running
            /\ IF crawlers[k].html = HtmlNone
               THEN Len(customers_info) = crawlers[k].n0
               ELSE /\ Len(customers_info) = crawlers[k].n0 + 1
                    /\ customers_info[Len(customers_info)].url = crawlers[k].url

\* the step is a step of the URLProducer k: each of them moves it on in
\* run()
ProducerActs(k) == producers'[k].pc # producers[k].pc /\ ProducerAlive(k)

\* C14: a cycle of a URLProducer that reads enable_wakeup_from_stored_urls
\* as false goes back to the start of its loop without taking the lock and
\* leaves the Pool, the queue and the Visited Set as they are; and no step
\* a URLProducer takes before it has read the switch changes them
C14_WakeupDisabled ==
    /\ [][\A k \in Threads :
            (producers[k].pc = "wake" /\ ProducerActs(k) /\ running
                /\ ~config_data'.enable_wakeup_from_stored_urls)
            => /\ producers'[k].pc = "loop"
               /\ UNCHANGED <<stored_links, url_queue, visited, lock, enqueued>>]_vars
    /\ [][\A k \in Threads :
            (producers[k].pc \in {"loop", "wake"} /\ ProducerActs(k))
            => UNCHANGED <<stored_links, url_queue, visited, enqueued>>]_vars

\* C14 witness: a URLProducer has read the switch as false and is back at
\* the start of its loop, the run running and the Pool not empty
C14_Witness ==
    \E k \in Threads :
        /\ producers[k].pc = "loop"
        /\ ~config_data.enable_wakeup_from_stored_urls
        /\ config_data.new_customer_probability > 0
        /\ running
        /\ stored_links # <<>>

\* the URLProducer k gives up the entry it has picked: back to the start
\* of its loop, the lock released, the entry not in the Pool, nothing put
\* on the queue, the Visited Set as it was
Dropped(k) ==
    /\ producers'[k].pc = "loop"
    /\ lock' = Free
    /\ UNCHANGED <<stored_links, url_queue, visited, enqueued>>
    /\ producers[k].link \notin Range(stored_links')

\* C15: each successful draw removes exactly one entry from the Pool, the
\* one it picks; when the entry is already in the Visited Set, or when the
\* queue does not hold fewer than max_queue_size items at the capacity
\* test, the entry is given up
C15_DroppedNotRetried ==
    /\ [][\A k \in Threads :
            (producers[k].pc = "lock" /\ producers'[k].pc = "chk") =>
                /\ producers'[k].link \in Range(stored_links)
                /\ Len(stored_links') = Len(stored_links) - 1
                /\ Range(stored_links') = Range(stored_links) \ {producers'[k].link}]_vars
    /\ [][\A k \in Threads :
            (producers[k].pc = "chk" /\ ProducerActs(k)
                /\ normalize_url(producers[k].link) \in visited) => Dropped(k)]_vars
    /\ [][\A k \in Threads :
            (producers[k].pc = "size" /\ ProducerActs(k)
                /\ Len(url_queue) >= config_data.max_queue_size) => Dropped(k)]_vars

\* C15 witness: a URLProducer has taken an entry out of the Pool, found it
\* not visited, and stands at the capacity test with the queue full
C15_Witness ==
    \E k \in Threads :
        /\ producers[k].pc = "size"
        /\ Len(url_queue) >= config_data.max_queue_size
        /\ producers[k].link \notin Range(stored_links)

\* C16: the items got so far, followed by the items in the queue, are the
\* items put so far, in the order of the puts (so the gets that follow a
\* series of puts return the items in that order); size() is the number of
\* items put and not yet got, and empty() is true exactly when size() is 0
C16_Fifo ==
    /\ lab.gets \o lab.q = lab.puts
    /\ size(lab.q) = Len(lab.puts) - Len(lab.gets)
    /\ empty(lab.q) <=> (size(lab.q) = 0)
    /\ empty(lab.q) <=> (lab.gets = lab.puts)

\* C16 witness: three different items were put and then the first two of
\* them got, in the order of the puts; the third is in the queue
C16_Witness ==
    /\ lab.puts = <<UrlA, NoneUrl, UrlB>>
    /\ lab.gets = <<UrlA, NoneUrl>>
    /\ size(lab.q) = 1 /\ ~empty(lab.q)

\* C17: a call of fetch makes at most max_retries attempts (session.get
\* calls), whatever the responses are, and what it returns is a body or
\* None
C17_BoundedAttempts ==
    /\ Len(lab.log) <= max_retries
    /\ lab.pc = "returned" => lab.result \in Bodies \cup {HtmlNone}

\* C18: the attempt that gets a 200 response ends the call with the body of
\* that response, and the attempt that gets a status other than 200 and 429
\* ends it with None: a call that has had such a response makes no further
\* attempt
C18_FailFast ==
    /\ [][Len(lab'.log) = Len(lab.log) + 1 =>
            LET r == lab'.log[Len(lab'.log)] IN
                /\ (~r.exc /\ r.status_code = 200) =>
                        lab'.pc = "returned" /\ lab'.result = r.text
                /\ (~r.exc /\ r.status_code \notin {200, 429}) =>
                        lab'.pc = "returned" /\ lab'.result = HtmlNone]_vars
    /\ [](\A i \in 1..(Len(lab.log) - 1) :
            lab.log[i].exc \/ lab.log[i].status_code = 429)
    /\ [][lab.pc = "returned" => lab' = lab]_vars

\* C18 witness: a call has returned the body of a 200 response that came
\* after a 429 response and a transport error
C18_Witness ==
    /\ lab.pc = "returned"
    /\ Len(lab.log) = 3
    /\ lab.log[1].status_code = 429 /\ lab.log[2].exc
    /\ lab.log[3].status_code = 200
    /\ lab.result = "<a>"

\* the positions where sub occurs in text
Occurrences(text, sub) == {i \in 1..(Len(text) + 1) : StartsAt(text, sub, i)}

\* the largest number of occurrences of sub in text no two of which share a
\* character
NonOverlapping(text, sub) ==
    LET disjoint(S) == \A p, q \in S : p < q => q - p >= Len(sub)
        sizes == {Cardinality(S) : S \in {T \in SUBSET Occurrences(text, sub) : disjoint(T)}}
    IN  CHOOSE n \in sizes : \A m \in sizes : m <= n

\* every count is a natural number, the number of non-overlapping
\* occurrences of the key in the content, both in lower case
CountsRight ==
    \A kw \in DOMAIN lab.counts :
        /\ lab.counts[kw] \in Nat
        /\ lab.counts[kw] = NonOverlapping(Lower(lab.html), kw)

\* C19 as stated: the result has as many entries as the keyword list has
\* elements (none for the empty list), and every count is the number of
\* non-overlapping case-insensitive occurrences
C19_EntryPerElement ==
    lab.pc = "returned" =>
        /\ Cardinality(DOMAIN lab.counts) = Len(lab.keywords)
        /\ CountsRight

\* C19: the result has one entry for every distinct lower-cased keyword of
\* the list (so none for the empty list, and fewer than the list is long
\* when it repeats a keyword or has it in two spellings), every keyword of
\* the list is a key in lower case, and every count is the number of
\* non-overlapping case-insensitive occurrences
C19_EntryPerKeyword ==
    lab.pc = "returned" =>
        /\ DOMAIN lab.counts = {Lower(lab.keywords[i]) : i \in 1..Len(lab.keywords)}
        /\ lab.keywords = <<>> => lab.counts = <<>>
        /\ CountsRight

\* C19 witness: the body "x X x" with the keywords "x" and "X" has given the
\* one entry x: 3
C19_Witness ==
    /\ lab.pc = "returned"
    /\ lab.html = <<"x", " ", "X", " ", "x">>
    /\ lab.keywords = << <<"x">>, <<"X">> >>
    /\ DOMAIN lab.counts = {<<"x">>}
    /\ lab.counts[<<"x">>] = 3

\* C20: normalizing a normalized URL gives the same URL: the key the
\* producer computes from a Pool entry is the key the worker stored
C20_Idempotent ==
    lab.pc = "twice" => lab.twice = lab.once

\* C21: a thread that is between a check and the write that depends on it
\* (start() between the test of the Visited Set and the add, store_links
\* in its loop, the producer from the pick to the add) holds the lock
C21_CheckThenActLocked ==
    /\ ui.pc \in {"seed_put", "seed_add"} => lock = <<"console", 0>>
    /\ \A k \in Threads : crawlers[k].pc = "storing" => lock = CrawlerId(k)
    /\ \A k \in Threads :
         producers[k].pc \in {"chk", "size", "put", "add"} => lock = ProducerId(k)

\* the URLs that have been put on the queue
EverEnqueued == {u \in NormUrls : enqueued[u] > 0}

\* start() is in its seeding loop
Seeding == ui.pc \in {"seed_chk", "seed_put", "seed_add"}

\* C22: with the lock free and start() not in its seeding loop, the Visited
\* Set is the set of URLs that have been put on the queue; and the Visited
\* Set only grows
C22_VisitedIsEnqueued ==
    /\ []((lock = Free /\ ~Seeding) => visited = EverEnqueued)
    /\ [][visited \subseteq visited']_vars

\* C22 witness: the lock is free, start() has returned, and the Visited
\* Set holds the two seeds and a URL the producer promoted from the Pool
C22_Witness ==
    /\ lock = Free
    /\ ui.pc = "idle"
    /\ visited = {UrlA, UrlB, UrlC}
    /\ starts = 1
    /\ enqueued[UrlB] = 1

\* the items taken from the queue and not yet acknowledged
InHand == Cardinality({k \in Threads : crawlers[k].url # NoneUrl})

\* C23: the worker that has taken a terminal item (the sentinel, or a URL
\* with max_customers results recorded) clears the run flag and ends, and
\* calls task_done for the item exactly when it is not the sentinel.  Every
\* task_done is for a URL the worker holds and gives up with it, every URL
\* the worker gives up is acknowledged by that step, and so the queue's
\* count of unfinished tasks never falls below the items still queued or
\* in the worker's hand
C23_AckPerItem ==
    /\ [][\A k \in Threads :
            (crawlers[k].pc = "done" /\ crawlers'[k] # crawlers[k]) =>
                /\ ~running'
                /\ crawlers'[k].pc = "dead"
                /\ url_queue' = url_queue
                /\ unfinished_tasks' =
                     IF crawlers[k].url = NoneUrl THEN unfinished_tasks
                     ELSE unfinished_tasks - 1]_vars
    /\ [][unfinished_tasks' < unfinished_tasks =>
            /\ unfinished_tasks' = unfinished_tasks - 1
            /\ \E k \in Threads :
                 crawlers[k].url # NoneUrl /\ crawlers'[k].url = NoneUrl]_vars
    /\ [][\A k \in Threads :
            (crawlers[k].url # NoneUrl /\ crawlers'[k].url = NoneUrl) =>
                unfinished_tasks' = unfinished_tasks - 1]_vars
    /\ [](unfinished_tasks >= Len(url_queue) + InHand)

\* C23 witness: the worker has taken the sentinel after a page was
\* recorded and acknowledged; only the sentinel is counted as unfinished
C23_Witness ==
    \E k \in Threads :
        /\ crawlers[k].pc = "done"
        /\ crawlers[k].url = NoneUrl
        /\ customers_info # <<>>
        /\ url_queue = <<>>
        /\ unfinished_tasks = 1

\* C24: the worker that has seen the queue empty after its idle delay
\* leaves its loop when the run flag is false, taking nothing from the
\* queue, and goes round again (alive, at its loop test) when the run flag
\* is true
C24_EmptyPoll ==
    [][\A k \in Threads :
         (crawlers[k].pc = "chkrun" /\ crawlers'[k] # crawlers[k]) =>
            /\ url_queue' = url_queue
            /\ unfinished_tasks' = unfinished_tasks
            /\ running' = running
            /\ IF running
               THEN crawlers'[k] = [crawlers[k] EXCEPT !.pc = "poll"]
               ELSE crawlers'[k].pc = "dead"]_vars

\* C24 witness: stop() has cleared the run flag and not yet published the
\* sentinel; the worker has seen the queue empty and is at the test of the
\* run flag
C24_Witness ==
    \E k \in Threads :
        /\ crawlers[k].pc = "chkrun"
        /\ ~running
        /\ ui.pc = "stop_put"
        /\ url_queue = <<>>

\* the transport errors among the session.get calls of a log
Errors(log) == Cardinality({i \in 1..Len(log) : log[i].exc})

\* the last session.get of the call raised a transport error
LastIsError == lab.log # <<>> /\ lab.log[Len(lab.log)].exc

ProducerEnqueues(k) == producers[k].pc = "put" /\ producers'[k].pc = "add"

\* C26: when the producer puts a URL on the queue, the queue holds fewer
\* than max_queue_size items, and max_queue_size at most after the put
C26_RoomAtInsert ==
    [][\A k \in Threads :
         ProducerEnqueues(k) =>
            /\ size(url_queue) < config_data.max_queue_size
            /\ size(url_queue') <= config_data.max_queue_size]_vars

\* stop() has cleared the run flag and published the sentinel, and has not
\* returned yet
SentinelPublished == ui.pc \in {"join_crawler", "join_producer"}

\* C27: once stop() has published the sentinel, no producer puts a URL on
\* the queue, the Visited Set does not change, and no URL stands behind
\* the sentinel in the queue
C27_NoEnqueueAfterStop ==
    /\ [][SentinelPublished =>
            /\ \A k \in Threads : ~ProducerEnqueues(k)
            /\ visited' = visited]_vars
    /\ [](SentinelPublished =>
            \A i, j \in 1..Len(url_queue) :
                (i < j /\ url_queue[i] = NoneUrl) => url_queue[j] = NoneUrl)

\* a call of stop() that got past its first test is on its way
StopInProgress == ui.pc \in {"stop_put", "join_crawler", "join_producer"}

\* C28: with the run flag false and no stop() on its way, the queue holds
\* no sentinel; and no worker takes a sentinel that was published before
\* the start() that created it
C28_NoStaleSentinel ==
    /\ (~running /\ ~StopInProgress) => NoneUrl \notin Range(url_queue)
    /\ \A k \in Threads :
         (crawlers[k].pc = "done" /\ crawlers[k].url = NoneUrl) => StopInProgress

\* the URLs that are both in the Pool and in the Visited Set
Overlap == Range(stored_links) \cap visited

ResultUrls == [i \in 1..Len(customers_info) |-> customers_info[i].url]

\* C30: no URL is fetched twice, and no two results carry the same URL
C30_FetchedOnce ==
    /\ \A u \in NormUrls : fetched[u] <= 1
    /\ NoRepetition(ResultUrls)

\* C31: a worker that has seen the queue non-empty and stands before
\* get_url finds an item when it calls it: only the worker itself takes
\* items from the queue, and while it stands there no step shortens the
\* queue
C31_GetNeverBlocks ==
    /\ [](\A k \in Threads : crawlers[k].pc = "get" => ~empty(url_queue))
    /\ [][size(url_queue') < size(url_queue) =>
            \E k \in Threads :
                /\ crawlers[k].pc = "get"
                /\ crawlers'[k].url = get_url(url_queue)
                /\ url_queue' = Tail(url_queue)
                /\ \A m \in Threads \ {k} : crawlers[m].pc # "get"]_vars

\* C31 witness: between the worker's look at the queue and its get_url the
\* producer has put a URL behind the one the worker saw
C31_Witness ==
    \E k \in Threads :
        /\ crawlers[k].pc = "get"
        /\ \E m \in Threads : producers[m].pc = "add"
        /\ size(url_queue) = 2
        /\ url_queue[2] = UrlB

\* the thread that holds the lock is inside a critical section: the worker
\* in the loop of store_links, the producer between its pick and its add.
\* None of these places is a join, a get_url or a sleep, and the console
\* thread, which joins, never holds the lock
HolderInSection ==
    /\ lock # Free =>
         \/ \E k \in Threads : lock = CrawlerId(k) /\ crawlers[k].pc = "storing"
         \/ \E k \in Threads :
              lock = ProducerId(k) /\ producers[k].pc \in {"chk", "size", "put", "add"}
    /\ \A k \in Threads :
         crawlers[k].pc \in {"poll", "chkrun", "get", "fetch", "ack"} => lock # CrawlerId(k)
    /\ \A k \in Threads :
         producers[k].pc \in {"loop", "wake"} => lock # ProducerId(k)

\* some thread waits: the console in a join of stop(), a worker for an
\* item or for the lock, a producer for the lock
SomeoneWaits ==
    \/ StopInProgress
    \/ \E k \in Threads : crawlers[k].pc \in {"get", "store", "add"}
    \/ \E k \in Threads : producers[k].pc = "lock"

\* some thread can take its next step
SomeoneMoves ==
    \/ ENABLED ConsoleProgress
    \/ \E k \in Threads : ENABLED CrawlerStep(k)
    \/ \E k \in Threads : ENABLED ProducerStep(k)

\* C32: the lock is held only inside the critical sections, where no
\* thread joins, waits for an item or sleeps; a lock that is held is
\* released in the end; and in no state where a thread waits are all
\* threads unable to move
C32_DeadlockFree ==
    /\ []HolderInSection
    /\ (lock # Free) ~> (lock = Free)
    /\ [](SomeoneWaits => SomeoneMoves)

\* C32 witness: stop() waits in crawler.join(), the worker waits for the
\* lock in store_links, and the producer holds the lock
C32_Witness ==
    \E k \in Threads :
        /\ ui.pc = "join_crawler"
        /\ crawler = k
        /\ crawlers[k].pc = "store"
        /\ \E m \in Threads : lock = ProducerId(m)

====
